---- MODULE Spec2Model ----
(***************************************************************************)
(* Model of program3.py: back-up of a local directory tree to an S3 bucket *)
(* and restore of a key prefix of a bucket into a local directory.         *)
(*                                                                         *)
(* Strings (paths, keys, prefixes) are sequences of one-character strings, *)
(* so that join, replace, relpath, dirname and the store's literal prefix  *)
(* filter are computed character by character, as the library computes     *)
(* them.  A file-system location is a sequence of path components counted  *)
(* from the file-system root.                                              *)
(***************************************************************************)
EXTENDS Naturals, Sequences, FiniteSets, TLC

VARIABLES
    sep,        \* os.sep of the host: "/" (posixpath) or "\\" (ntpath)
    dirs,       \* local directories (locations)
    files,      \* local regular files: location -> [mtime, data]
    buckets,    \* names of the buckets of the store
    objects,    \* objects of the store: <<bucket, key>> -> [lmt, data]
    clock,      \* the store's clock, which stamps last_modified
    pc,         \* "idle", "backup" or "restore": where main is
    args,       \* [root_dir, bucket_name, bucket_dir] of the running call
    todo,       \* what the running loop has still to visit
    success,    \* the local variable success of back_up / restore
    outcome,    \* how the last call ended
    log,        \* the client calls of the running (or last) call, in order
    snap,       \* the file system and the store as the running call found them
    prev,       \* the call before the running (or last) one
    touched,    \* a local file was modified since the last call ended
    runs        \* number of calls of main so far

vars == <<sep, dirs, files, buckets, objects, clock, pc, args, todo,
          success, outcome, log, snap, prev, touched, runs>>

----------------------------------------------------------------------------
(* Sequences and strings                                                   *)

Range(s) == {s[i] : i \in DOMAIN s}

Last(s) == s[Len(s)]

Front(s) == SubSeq(s, 1, Len(s) - 1)

\* str.startswith
StartsWith(s, p) == Len(p) <= Len(s) /\ SubSeq(s, 1, Len(p)) = p

\* str.replace(old, new) for a one-character old
RECURSIVE replace(_, _, _)
replace(s, old, new) ==
    IF s = <<>> THEN <<>>
    ELSE (IF Head(s) = old THEN <<new>> ELSE <<Head(s)>>)
         \o replace(Tail(s), old, new)

\* the characters os.path takes for a separator on a host whose os.sep is sp
IsSep(c, sp) == c = "/" \/ (sp = "\\" /\ c = "\\")

\* str.split on the separators: empty components are kept
RECURSIVE split(_, _)
split(s, sp) ==
    IF s = <<>> THEN << <<>> >>
    ELSE LET rest == split(Tail(s), sp)
         IN  IF IsSep(Head(s), sp)
             THEN << <<>> >> \o rest
             ELSE << <<Head(s)>> \o Head(rest) >> \o Tail(rest)

\* sp.join(comps)
RECURSIVE joinComps(_, _)
joinComps(comps, sp) ==
    IF comps = <<>> THEN <<>>
    ELSE IF Len(comps) = 1 THEN Head(comps)
    ELSE Head(comps) \o <<sp>> \o joinComps(Tail(comps), sp)

\* os.path.join(a, b)
join(a, b, sp) ==
    IF b # <<>> /\ IsSep(Head(b), sp) THEN b
    ELSE IF a = <<>> \/ IsSep(Last(a), sp) THEN a \o b
    ELSE a \o <<sp>> \o b

\* index of the last separator of s, 0 if there is none
RECURSIVE rfindSep(_, _)
rfindSep(s, sp) ==
    IF s = <<>> THEN 0
    ELSE IF IsSep(Last(s), sp) THEN Len(s)
    ELSE rfindSep(Front(s), sp)

\* str.rstrip of the separators
RECURSIVE rstripSep(_, _)
rstripSep(s, sp) ==
    IF s # <<>> /\ IsSep(Last(s), sp) THEN rstripSep(Front(s), sp) ELSE s

\* os.path.dirname(p)
dirname(p, sp) ==
    LET head == SubSeq(p, 1, rfindSep(p, sp))
    IN  IF rstripSep(head, sp) = <<>> THEN head ELSE rstripSep(head, sp)

DotDot == <<".", ".">>

\* the component loop of os.path.normpath; rooted: the path is absolute
RECURSIVE normComps(_, _, _)
normComps(comps, acc, rooted) ==
    IF comps = <<>> THEN acc
    ELSE LET c == Head(comps)
         IN  IF c = <<>> \/ c = <<".">>
             THEN normComps(Tail(comps), acc, rooted)
             ELSE IF c # DotDot
                     \/ (~rooted /\ acc = <<>>)
                     \/ (acc # <<>> /\ Last(acc) = DotDot)
             THEN normComps(Tail(comps), Append(acc, c), rooted)
             ELSE IF acc # <<>>
             THEN normComps(Tail(comps), Front(acc), rooted)
             ELSE normComps(Tail(comps), acc, rooted)

\* the working directory of the process, as a location
cwd == << <<"w">> >>

\* os.path.abspath(p), as the components of the normalised absolute path
abspath(p, sp) ==
    IF p # <<>> /\ IsSep(Head(p), sp)
    THEN normComps(split(p, sp), <<>>, TRUE)
    ELSE normComps(cwd \o split(p, sp), <<>>, TRUE)

\* length of the common prefix of two component lists
RECURSIVE commonLen(_, _)
commonLen(a, b) ==
    IF a = <<>> \/ b = <<>> \/ Head(a) # Head(b) THEN 0
    ELSE 1 + commonLen(Tail(a), Tail(b))

\* os.path.relpath(path, start)
relpath(path, start, sp) ==
    LET start_list == abspath(start, sp)
        path_list  == abspath(path, sp)
        i          == commonLen(start_list, path_list)
        rel_list   == [k \in 1..(Len(start_list) - i) |-> DotDot]
                      \o SubSeq(path_list, i + 1, Len(path_list))
    IN  IF rel_list = <<>> THEN <<".">> ELSE joinComps(rel_list, sp)

----------------------------------------------------------------------------
(* The local file system                                                   *)

FsRoot == <<>>

Parent(loc) == IF loc = <<>> THEN <<>> ELSE Front(loc)

\* the locations of L below location top
Below(top, L) == {l \in L : Len(l) > Len(top)
                            /\ SubSeq(l, 1, Len(top)) = top}

\* Follow the components of a path from cur, one directory entry at a time:
\* every component is looked up in a directory that exists (D).  ok is
\* FALSE when a lookup has no directory to look in.
RECURSIVE lookup(_, _, _)
lookup(comps, cur, D) ==
    IF comps = <<>> THEN [ok |-> TRUE, loc |-> cur]
    ELSE IF cur \notin D THEN [ok |-> FALSE, loc |-> cur]
    ELSE LET c == Head(comps)
         IN  IF c = <<>> \/ c = <<".">> THEN lookup(Tail(comps), cur, D)
             ELSE IF c = DotDot THEN lookup(Tail(comps), Parent(cur), D)
             ELSE lookup(Tail(comps), Append(cur, c), D)

\* The location a path names.  A posix host follows the path entry by
\* entry; an nt host normalises it first (abspath) and then needs the
\* parent chain of the result only.
resolve(p, sp, D) ==
    IF p = <<>> THEN [ok |-> FALSE, loc |-> cwd]
    ELSE IF sp = "\\"
    THEN LET loc == abspath(p, sp)
         IN  [ok |-> loc = <<>> \/ Parent(loc) \in D, loc |-> loc]
    ELSE lookup(split(p, sp),
                IF IsSep(Head(p), sp) THEN FsRoot ELSE cwd, D)

\* os.path.exists(p)
exists(p, sp, D, F) ==
    LET r == resolve(p, sp, D)
    IN  r.ok /\ (r.loc \in D \/ r.loc \in DOMAIN F)

\* os.mkdir(p): the directories after the call, and the error it raises
\* ("" none, "exists" FileExistsError, "other" any other OSError)
mkdir(p, sp, D, F) ==
    LET r == resolve(p, sp, D)
    IN  IF ~r.ok THEN [dirs |-> D, err |-> "other"]
        ELSE IF r.loc \in D \/ r.loc \in DOMAIN F
        THEN [dirs |-> D, err |-> "exists"]
        ELSE IF Parent(r.loc) \notin D THEN [dirs |-> D, err |-> "other"]
        ELSE [dirs |-> D \cup {r.loc}, err |-> ""]

\* os.path.split(p): <<head, tail>>
pathsplit(p, sp) ==
    <<dirname(p, sp), SubSeq(p, rfindSep(p, sp) + 1, Len(p))>>

\* os.makedirs(name), exist_ok = False
RECURSIVE makedirs(_, _, _, _)
makedirs(name, sp, D, F) ==
    LET s1   == pathsplit(name, sp)
        s2   == IF s1[2] = <<>> THEN pathsplit(s1[1], sp) ELSE s1
        head == s2[1]
        tail == s2[2]
        rec  == head # <<>> /\ tail # <<>> /\ ~exists(head, sp, D, F)
        up   == IF rec THEN makedirs(head, sp, D, F)
                ELSE [dirs |-> D, err |-> ""]
    IN  IF rec /\ up.err = "other" THEN up
        ELSE IF rec /\ tail = <<".">> THEN [dirs |-> up.dirs, err |-> ""]
        ELSE mkdir(name, sp, up.dirs, F)

\* the names of the entries of directory loc among the locations L
Entries(loc, L) == {Last(l) : l \in {m \in L : m # <<>> /\ Front(m) = loc}}

\* all orders of a finite set
Perms(S) ==
    {q \in [1..Cardinality(S) -> S] : \A i, j \in 1..Cardinality(S) :
                                          q[i] = q[j] => i = j}

\* os.walk(top), top-down: the orders in which it can yield the files of the
\* tree, each file as <<dir_name, file_name>>.  A directory's own files
\* come before those of its subdirectories; the order of the entries of
\* one directory is the host's.
RECURSIVE walk(_, _, _, _), walkEach(_, _, _, _)
walk(top, sp, D, F) ==
    LET r == resolve(top, sp, D)
    IN  IF ~r.ok \/ r.loc \notin D THEN {<<>>}
        ELSE { own \o below :
                 own \in Perms({<<top, f>> : f \in Entries(r.loc, DOMAIN F)}),
                 below \in UNION { walkEach(q, sp, D, F) :
                     q \in Perms({join(top, d, sp) :
                                    d \in Entries(r.loc, D)}) } }
walkEach(tops, sp, D, F) ==
    IF tops = <<>> THEN {<<>>}
    ELSE { a \o b : a \in walk(Head(tops), sp, D, F),
                    b \in walkEach(Tail(tops), sp, D, F) }

\* whether os.walk(top) yields any triple at all
walkVisits(top, sp, D) ==
    LET r == resolve(top, sp, D) IN r.ok /\ r.loc \in D

Slash == <<"/">>

\* back_up's full_path of the file file_name of directory dir_name
full_path_of(dir_name, file_name, sp) ==
    replace(join(dir_name, file_name, sp), "\\", "/")

\* back_up's s3_full_path
s3_key(bucket_dir, full_path) == bucket_dir \o Slash \o full_path

----------------------------------------------------------------------------
(* Bounds and the inputs the model draws from                              *)

MaxTime == 2        \* time stamps are 1..MaxTime
MaxRuns == 2        \* calls of main in one behaviour
MaxForeign == 1     \* other writers' objects in the bucket at the start
MaxStored == 3      \* objects in the bucket at the start of a restore

Times == 1..MaxTime

\* command-line arguments
BucketNames  == {"b"}
Prefixes     == {<<"p">>, <<"p", "o">>}
BackupRoots  == {<<"r">>, <<"n">>}
RestoreRoots == {<<"o">>}

\* local locations of the initial trees
locR   == cwd \o << <<"r">> >>
locRA  == locR \o << <<"a">> >>
fileRX == locR \o << <<"x">> >>
fileRY == locRA \o << <<"y">> >>
locO   == cwd \o << <<"o">> >>

\* objects other writers may have left in the bucket: a directory marker,
\* a file where a back-up of r puts a directory, and a file in a directory
ForeignObjects ==
    { [key |-> <<"p", "/", "a", "/">>,      data |-> "marker"],
      [key |-> <<"p", "/", "r">>,           data |-> "f1"],
      [key |-> <<"p", "/", "d", "/", "e">>, data |-> "f2"] }

\* the objects a back-up of r leaves in the bucket
BackedUpObjects ==
    { [key  |-> s3_key(d, full_path_of(f[1], f[2], "/")), data |-> f[3]] :
        d \in Prefixes,
        f \in {<< <<"r">>, <<"x">>, "x">>, << <<"r", "/", "a">>, <<"y">>, "y">>} }

NoArgs == [op |-> "none", root_dir |-> <<>>, bucket_name |-> "",
           bucket_dir |-> <<>>]

NoSnap == [dirs |-> {}, files |-> <<>>, objects |-> <<>>, buckets |-> {},
           clock |-> 0]

NoPrev == [args |-> NoArgs, outcome |-> "", touched |-> FALSE, clock |-> 0]

----------------------------------------------------------------------------
(* The store                                                               *)

\* s3_bucket.objects.filter(Prefix = bucket_dir): the keys of the bucket
\* that start with the characters of the prefix
filter(O, bucket_name, bucket_dir) ==
    {k[2] : k \in {j \in DOMAIN O : j[1] = bucket_name
                                     /\ StartsWith(j[2], bucket_dir)}}

\* the look-up never finds the object
last_modified_absent(O, bucket_name, key) == 0

\* s3_file_path.last_modified: 0 stands for the ClientError of a key (or a
\* bucket) that does not exist
last_modified(O, bucket_name, key) ==
    IF <<bucket_name, key>> \in DOMAIN O THEN O[<<bucket_name, key>>].lmt
    ELSE 0

\* the key joined to the root as it is, its prefix not taken off
target_of_key(root_dir, key, bucket_dir, sp) == join(root_dir, key, sp)

\* the path restore downloads a key to
target_of(root_dir, key, bucket_dir, sp) ==
    join(root_dir, relpath(key, bucket_dir, sp), sp)

\* the test of the bucket left out
bucket_missing_never(bucket_name, B) == FALSE

\* whether restore finds the bucket missing
bucket_missing(bucket_name, B) == bucket_name \notin B

\* success set in the file loop instead of the directory loop
walk_success_files(root_dir, sp, D) ==
    walkVisits(root_dir, sp, D)
    /\ Below(abspath(root_dir, sp), DOMAIN files) # {}

\* what back_up's success flag is after the traversal
walk_success(root_dir, sp, D) == walkVisits(root_dir, sp, D)

Entry(call, key, path, tl, tr) ==
    [call |-> call, key |-> key, path |-> path, tl |-> tl, tr |-> tr]

----------------------------------------------------------------------------
(* State                                                                   *)

\* the host, and the call state before the first call of main
InitHost ==
    /\ sep \in {"/", "\\"}
    /\ clock = 1
    /\ pc = "idle"
    /\ args = NoArgs
    /\ todo = <<>>
    /\ success = FALSE
    /\ outcome = ""
    /\ log = <<>>
    /\ snap = NoSnap
    /\ prev = NoPrev
    /\ touched = FALSE
    /\ runs = 0

\* the local tree: directory r, with or without its subdirectory a, its
\* files x and a/y, and the directory o
InitLocal(mayHaveFiles) ==
    \E A \in {{}, {locRA}}, O \in {{}, {locO}},
       X \in SUBSET (IF mayHaveFiles THEN {fileRX, fileRY} ELSE {}) :
       \E t \in [X -> Times] :
          /\ (fileRY \in X => locRA \in A)
          /\ dirs = {FsRoot, cwd, locR} \cup A \cup O
          /\ files = [l \in X |->
                        [mtime |-> t[l],
                         data  |-> IF l = fileRX THEN "x" ELSE "y"]]

\* the store: no bucket, or bucket b holding some of the objects U, at most n
InitStore(U, n) ==
    \E F \in SUBSET U :
       /\ Cardinality(F) <= n
       /\ \/ buckets = {} /\ F = {} /\ objects = <<>>
          \/ /\ buckets = {"b"}
             /\ objects = [k \in {<<"b", o.key>> : o \in F} |->
                             [lmt  |-> 1,
                              data |-> (CHOOSE o \in F : o.key = k[2]).data]]

Init == InitHost /\ InitLocal(TRUE) /\ InitStore(ForeignObjects, MaxForeign)

Snapshot == [dirs |-> dirs, files |-> files, objects |-> objects,
             buckets |-> buckets, clock |-> clock]

\* main's bookkeeping at the start of a call
Begin(op, root_dir, bucket_name, bucket_dir) ==
    /\ pc = "idle"
    /\ runs < MaxRuns
    /\ runs' = runs + 1
    /\ args' = [op |-> op, root_dir |-> root_dir,
                bucket_name |-> bucket_name, bucket_dir |-> bucket_dir]
    /\ prev' = [args |-> args, outcome |-> outcome, touched |-> touched,
                clock |-> snap.clock]
    /\ touched' = FALSE

Finish(how) ==
    /\ pc' = "idle"
    /\ outcome' = how

\* os.path.getmtime(path); 0 stands for the OSError of a missing file
getmtime(path) ==
    LET r == resolve(path, sep, dirs)
    IN  IF r.ok /\ r.loc \in DOMAIN files THEN files[r.loc].mtime ELSE 0

\* not_up_to_date with <= for <: a file as old as its object is uploaded again
not_up_to_date_le(current_file_path, bucket_name, s3_full_path) ==
    LET s3_file_lmt == last_modified(objects, bucket_name, s3_full_path)
    IN  IF s3_file_lmt = 0 THEN TRUE
        ELSE s3_file_lmt <= getmtime(current_file_path)

\* not_up_to_date(current_file_path, s3_client.Object(bucket, key))
not_up_to_date(current_file_path, bucket_name, s3_full_path) ==
    LET s3_file_lmt == last_modified(objects, bucket_name, s3_full_path)
    IN  IF s3_file_lmt = 0 THEN TRUE
        ELSE s3_file_lmt < getmtime(current_file_path)

\* create_bucket_if_needed: the bucket sets the call may leave (the store
\* may refuse the name)
create_bucket_if_needed(bucket_name) ==
    IF bucket_name \in buckets THEN {buckets}
    ELSE {buckets \cup {bucket_name}, buckets}

\* main, "backup": create_bucket_if_needed, then back_up up to its loop
MainBackup(root_dir, bucket_name, bucket_dir) ==
    /\ Begin("backup", root_dir, bucket_name, bucket_dir)
    /\ buckets' \in create_bucket_if_needed(bucket_name)
    /\ snap' = [Snapshot EXCEPT !.buckets = buckets']
    /\ outcome' = ""
    /\ todo' \in walk(root_dir, sep, dirs, files)
    /\ log' = <<>>
    /\ success' = walk_success(root_dir, sep, dirs)
    /\ pc' = "backup"
    /\ UNCHANGED <<sep, dirs, files, objects, clock>>

\* one pass of back_up's inner loop: one file
BackupStep ==
    /\ pc = "backup"
    /\ todo # <<>>
    /\ LET full_path   == full_path_of(Head(todo)[1], Head(todo)[2], sep)
           s3_full_path == s3_key(args.bucket_dir, full_path)
           k    == <<args.bucket_name, s3_full_path>>
           tl   == getmtime(full_path)
           tr   == last_modified(objects, args.bucket_name, s3_full_path)
           loc  == resolve(full_path, sep, dirs).loc
       IN  /\ todo' = Tail(todo)
           /\ IF tl = 0
              THEN \* getmtime or upload_file raises: out of back_up
                   /\ Finish("fatal")
                   /\ log' = Append(log, Entry("failed", s3_full_path,
                                               full_path, tl, tr))
                   /\ UNCHANGED objects
              ELSE IF not_up_to_date(full_path, args.bucket_name,
                                     s3_full_path)
              THEN \E ok \in {b \in BOOLEAN :
                                b => args.bucket_name \in buckets} :
                     IF ok
                     THEN /\ objects' = (k :> [lmt |-> clock,
                                               data |-> files[loc].data])
                                        @@ objects
                          /\ log' = Append(log, Entry("upload",
                                       s3_full_path, full_path, tl, tr))
                          /\ UNCHANGED <<pc, outcome>>
                     ELSE \* upload_file raises: out of back_up
                          /\ Finish("fatal")
                          /\ log' = Append(log, Entry("failed",
                                       s3_full_path, full_path, tl, tr))
                          /\ UNCHANGED objects
              ELSE /\ log' = Append(log, Entry("skip", s3_full_path,
                                               full_path, tl, tr))
                   /\ UNCHANGED <<objects, pc, outcome>>
    /\ UNCHANGED <<sep, dirs, files, buckets, clock, args, success, snap,
                   prev, touched, runs>>

\* back_up after its loop
BackupDone ==
    /\ pc = "backup"
    /\ todo = <<>>
    /\ Finish(IF success THEN "done" ELSE "nothing found")
    /\ UNCHANGED <<sep, dirs, files, buckets, objects, clock, args, todo,
                   success, log, snap, prev, touched, runs>>

\* main, "restore": restore up to its loop
MainRestore(root_dir, bucket_name, bucket_dir) ==
    /\ Begin("restore", root_dir, bucket_name, bucket_dir)
    /\ snap' = Snapshot
    /\ success' = FALSE
    /\ IF bucket_missing(bucket_name, buckets)
       THEN /\ pc' = "idle"
            /\ outcome' = "invalid bucket"
            /\ todo' = <<>>
            /\ log' = <<>>
       ELSE /\ pc' = "restore"
            /\ outcome' = ""
            /\ todo' \in Perms(filter(objects, bucket_name, bucket_dir))
            /\ log' = <<Entry("list", bucket_dir, <<>>, 0, 0)>>
    /\ UNCHANGED <<sep, dirs, files, buckets, objects, clock>>

\* s3_bucket.download_file(key, target): the local files after the call,
\* ok FALSE when it raises.  The new file's mtime is the time of the write.
download_file(bucket_name, key, target, D, F) ==
    LET r == resolve(target, sep, D)
    IN  IF r.ok /\ r.loc \notin D /\ Parent(r.loc) \in D
        THEN [ok |-> TRUE,
              files |-> (r.loc :> [mtime |-> clock,
                                   data |-> objects[<<bucket_name, key>>].data])
                        @@ F]
        ELSE [ok |-> FALSE, files |-> F]

\* one pass of restore's loop: one listed key
RestoreStep ==
    /\ pc = "restore"
    /\ todo # <<>>
    /\ LET key    == Head(todo)
           target == target_of(args.root_dir, key, args.bucket_dir, sep)
           dname  == dirname(target, sep)
           absent == ~exists(dname, sep, dirs, files)
           made   == IF absent THEN makedirs(dname, sep, dirs, files)
                     ELSE [dirs |-> dirs, err |-> ""]
           log1   == IF absent
                     THEN Append(log, Entry("makedirs", key, dname, 0, 0))
                     ELSE log
           got    == download_file(args.bucket_name, key, target,
                                   made.dirs, files)
       IN  /\ todo' = Tail(todo)
           /\ dirs' = made.dirs
           /\ IF made.err # ""
              THEN \* makedirs raises: out of restore
                   /\ Finish("fatal")
                   /\ log' = log1
                   /\ UNCHANGED <<files, success>>
              ELSE IF absent /\ Last(key) = "/"
              THEN /\ log' = log1
                   /\ UNCHANGED <<files, success, pc, outcome>>
              ELSE IF got.ok
              THEN /\ files' = got.files
                   /\ success' = TRUE
                   /\ log' = Append(log1, Entry("download", key, target,
                                                0, 0))
                   /\ UNCHANGED <<pc, outcome>>
              ELSE \* download_file raises: out of restore
                   /\ Finish("fatal")
                   /\ log' = Append(log1, Entry("failed", key, target,
                                                0, 0))
                   /\ UNCHANGED <<files, success>>
    /\ UNCHANGED <<sep, buckets, objects, clock, args, snap, prev, touched,
                   runs>>

\* restore after its loop
RestoreDone ==
    /\ pc = "restore"
    /\ todo = <<>>
    /\ Finish(IF success THEN "restored" ELSE "nothing found")
    /\ UNCHANGED <<sep, dirs, files, buckets, objects, clock, args, todo,
                   success, log, snap, prev, touched, runs>>

\* between two calls the user modifies a local file
Touch ==
    /\ pc = "idle"
    /\ 0 < runs /\ runs < MaxRuns
    /\ \E l \in DOMAIN files, t \in Times :
          /\ t # files[l].mtime
          /\ files' = [files EXCEPT ![l].mtime = t]
    /\ touched' = TRUE
    /\ UNCHANGED <<sep, dirs, buckets, objects, clock, pc, args, todo,
                   success, outcome, log, snap, prev, runs>>

\* between two calls time passes at the store
Tick ==
    /\ pc = "idle"
    /\ runs < MaxRuns
    /\ clock < MaxTime
    /\ clock' = clock + 1
    /\ UNCHANGED <<sep, dirs, files, buckets, objects, pc, args, todo,
                   success, outcome, log, snap, prev, touched, runs>>

Next ==
    \/ \E r \in BackupRoots, b \in BucketNames, d \in Prefixes :
          MainBackup(r, b, d)
    \/ BackupStep
    \/ BackupDone
    \/ \E r \in RestoreRoots, b \in BucketNames, d \in Prefixes :
          MainRestore(r, b, d)
    \/ RestoreStep
    \/ RestoreDone
    \/ Touch
    \/ Tick

Spec == Init /\ [][Next]_vars

\* back-ups only, into a bucket no other writer uses
InitBackup == InitHost /\ InitLocal(TRUE) /\ InitStore({}, 0)

NextBackup ==
    \/ \E r \in BackupRoots, b \in BucketNames, d \in Prefixes :
          MainBackup(r, b, d)
    \/ BackupStep
    \/ BackupDone
    \/ Touch
    \/ Tick

SpecBackup == InitBackup /\ [][NextBackup]_vars

\* restores only, from a bucket as back-ups and other writers left it
InitRestore ==
    /\ InitHost
    /\ InitLocal(FALSE)
    /\ InitStore(ForeignObjects \cup BackedUpObjects, MaxStored)

NextRestore ==
    \/ \E r \in RestoreRoots, b \in BucketNames, d \in Prefixes :
          MainRestore(r, b, d)
    \/ RestoreStep
    \/ RestoreDone

SpecRestore == InitRestore /\ [][NextRestore]_vars
----------------------------------------------------------------------------
(* Vocabulary of the properties                                            *)

\* main has returned from a call of op
Returned(op) == pc = "idle" /\ args.op = op /\ outcome # ""

\* the call ran its loop to the end
Completed(how) == how \in {"done", "restored", "nothing found"}

\* the local files of the root of the running back-up, as the call found them
RootFiles == Below(abspath(args.root_dir, sep), DOMAIN snap.files)

\* the root of the running back-up was a directory when the call started
RootIsDir == abspath(args.root_dir, sep) \in snap.dirs

\* the keys the running restore was given by the listing
Listing == filter(snap.objects, args.bucket_name, args.bucket_dir)

Calls(which) == {i \in DOMAIN log : log[i].call \in which}

\* the proper ancestors of a location
Ancestors(loc) == {SubSeq(loc, 1, n) : n \in 0..(Len(loc) - 1)}

----------------------------------------------------------------------------
(* Back-up                                                                 *)

\* C2: every decision of back_up's loop follows the time stamps it read: the
\* file is uploaded (or the upload is tried) if and only if the object is
\* absent or its last-modified time is strictly less than the file's mtime;
\* it is skipped whenever the object is as new as the file or newer.
C2_ChangeDetection ==
    \A i \in Calls({"upload", "failed", "skip"}) :
       log[i].tl # 0 =>
          (log[i].call # "skip" <=> (log[i].tr = 0 \/ log[i].tr < log[i].tl))

\* a file skipped because its object is exactly as old as the file
C2_Witness ==
    /\ \E i \in Calls({"skip"}) : log[i].tr = log[i].tl
    /\ \E i \in Calls({"upload"}) : log[i].tr = 0 \/ log[i].tr < log[i].tl

\* the call that has returned is a second back-up: the call before it was a
\* back-up of the same root into the same bucket and prefix, both ran to
\* completion, and no local file was modified in between
SecondBackup ==
    /\ Returned("backup")
    /\ Completed(outcome)
    /\ prev.args = args
    /\ Completed(prev.outcome)
    /\ ~prev.touched

NoUploadNoChange == Calls({"upload", "failed"}) = {} /\ objects = snap.objects

\* C3 as stated: a second back-up issues no upload and leaves the store
\* unchanged.
C3_Idempotent_Original == SecondBackup => NoUploadNoChange

\* the store stamped the first run's uploads no earlier than the files'
\* modification times
NoSkew == \A l \in RootFiles : snap.files[l].mtime <= prev.clock

\* C3 amended: a second back-up issues no upload and leaves the store
\* unchanged, provided the last-modified time the store gave each upload of
\* the first run is not earlier than the file's local modification time.
C3_Idempotent == (SecondBackup /\ NoSkew) => NoUploadNoChange

\* a second back-up that skipped a file the first one had to handle
C3_Witness ==
    /\ SecondBackup
    /\ NoSkew
    /\ Calls({"skip"}) # {}
    /\ Calls({"upload"}) = {}

\* C5: when back_up has returned, whatever happened to one file, every file
\* of the traversal has been visited.
C5_PartialFailure == Returned("backup") => todo = <<>>

\* the root of the back-up exists and holds no regular file
EmptyRoot == RootIsDir /\ RootFiles = {}

\* C6 as stated: a back-up of an existing root without regular files ends
\* "nothing found" and uploads nothing.
C6_EmptyRoot_Original ==
    (Returned("backup") /\ Completed(outcome) /\ EmptyRoot)
    => (outcome = "nothing found" /\ Calls({"upload", "failed"}) = {})

\* C6 amended: a back-up of an existing root without regular files uploads
\* nothing and ends with the success outcome; "nothing found" is the outcome
\* exactly when the root is not an existing directory.
C6_EmptyRoot ==
    (Returned("backup") /\ Completed(outcome))
    => /\ outcome = "nothing found" <=> ~RootIsDir
       /\ EmptyRoot => (outcome = "done" /\ Calls({"upload", "failed"}) = {})

\* a completed back-up of an existing root without regular files
C6_Witness ==
    Returned("backup") /\ Completed(outcome) /\ EmptyRoot /\ outcome = "done"

----------------------------------------------------------------------------
(* Restore                                                                 *)

\* C4: restore never calls download_file for a key that ends in "/".
C4_MarkerNoDownload ==
    \A i \in Calls({"download", "failed"}) : Last(log[i].key) # "/"

\* C7: a restore from a bucket that is not among the store's buckets returns
\* at once: it lists no key, creates no directory, downloads nothing, and the
\* local file system and the store are as the call found them.
C7_MissingBucket ==
    (args.op = "restore" /\ args.bucket_name \notin snap.buckets /\ ~touched)
    => /\ pc = "idle"
       /\ log = <<>>
       /\ dirs = snap.dirs
       /\ files = snap.files
       /\ objects = snap.objects
       /\ buckets = snap.buckets

\* a restore that found its bucket missing
C7_Witness ==
    /\ Returned("restore")
    /\ args.bucket_name \notin snap.buckets
    /\ outcome = "invalid bucket"

\* C8: a restore that ran to completion reports "nothing found" if and only
\* if the listing gave no key.
C8_Outcome ==
    (Returned("restore") /\ Completed(outcome))
    => (outcome = "nothing found" <=> Listing = {})

\* the location a path names, read without the file system
LocOf(path) == abspath(path, sep)

\* a path stays inside the root of the running restore
Inside(path) ==
    /\ DotDot \notin Range(split(path, sep))
    /\ LET root == LocOf(args.root_dir)
       IN  Len(LocOf(path)) >= Len(root)
           /\ SubSeq(LocOf(path), 1, Len(root)) = root

\* C10: every directory restore creates and every path it downloads to is
\* inside root_dir, and none has a ".." step.
C10_InsideRoot ==
    \A i \in Calls({"makedirs", "download", "failed"}) : Inside(log[i].path)

\* a key with the prefix taken off: what follows bucket_dir and one "/"
Stripped(key) == SubSeq(key, Len(args.bucket_dir) + 2, Len(key))

\* R/<key with prefix stripped>, as a location
Place(key) == LocOf(args.root_dir) \o split(Stripped(key), "/")

\* every listed key is a file key under the prefix: bucket_dir, "/", and a
\* relative path without empty, "." or ".." components
FileKeys ==
    \A k \in Listing :
       /\ StartsWith(k, args.bucket_dir \o Slash)
       /\ Range(split(Stripped(k), "/")) \cap {<<>>, <<".">>, DotDot} = {}

ObjectData(key) == snap.objects[<<args.bucket_name, key>>].data

\* what C9 promises of a restore that has returned: every needed directory
\* made once and never one that existed, every key downloaded to its place,
\* and the local tree the one the keys determine, whatever their order
Reconstructed ==
    /\ outcome = "restored"
    /\ \A i \in Calls({"makedirs"}) :
          /\ LocOf(log[i].path) \notin snap.dirs
          /\ \A j \in Calls({"makedirs"}) :
                LocOf(log[j].path) = LocOf(log[i].path) => j = i
    /\ \A k \in Listing :
          \E i \in Calls({"download"}) :
             log[i].key = k /\ LocOf(log[i].path) = Place(k)
    /\ dirs = snap.dirs \cup UNION {Ancestors(Place(k)) : k \in Listing}
    /\ DOMAIN files = DOMAIN snap.files \cup {Place(k) : k \in Listing}
    /\ \A k \in Listing : files[Place(k)].data = ObjectData(k)
    /\ \A l \in DOMAIN snap.files \ {Place(k) : k \in Listing} :
          files[l] = snap.files[l]

\* C9 as stated: for every set of file keys under the prefix, in every order.
C9_Reconstruction_Original ==
    (Returned("restore") /\ outcome # "invalid bucket" /\ ~touched
       /\ Listing # {} /\ FileKeys)
    => Reconstructed

\* the keys form a file tree that fits the destination: no key's place is a
\* directory of another key's place, no local file stands where a directory
\* is needed, and no local directory stands where a file is to be written
Fits ==
    /\ \A k, m \in Listing : Place(k) \notin Ancestors(Place(m))
    /\ \A k \in Listing : Ancestors(Place(k)) \cap DOMAIN snap.files = {}
    /\ \A k \in Listing : Place(k) \notin snap.dirs

\* C9 amended: the same, for every set of file keys under the prefix that
\* forms a file tree fitting the destination.
C9_Reconstruction ==
    (Returned("restore") /\ outcome # "invalid bucket" /\ ~touched
       /\ Listing # {} /\ FileKeys /\ Fits)
    => Reconstructed

\* a restore of two file keys that made two directories
C9_Witness ==
    /\ Returned("restore")
    /\ FileKeys
    /\ Fits
    /\ Cardinality(Listing) >= 2
    /\ Cardinality(Calls({"makedirs"})) >= 2
    /\ Reconstructed

----------------------------------------------------------------------------
(* Back-up, then restore                                                   *)

\* the call that has returned is a restore of the prefix that the call
\* before it, a completed back-up, wrote to
RestoredBackup ==
    /\ Returned("restore")
    /\ outcome = "restored"
    /\ prev.args.op = "backup"
    /\ prev.outcome = "done"
    /\ prev.args.bucket_name = args.bucket_name
    /\ prev.args.bucket_dir = args.bucket_dir
    /\ ~touched

\* C1: after a back-up of root R under prefix X and a restore of X into R',
\* every file at relative path P of R is at R'/P.
C1_RoundTrip ==
    RestoredBackup =>
       LET R == LocOf(prev.args.root_dir)
       IN  \A l \in Below(R, DOMAIN snap.files) :
              LET to == LocOf(args.root_dir) \o SubSeq(l, Len(R) + 1, Len(l))
              IN  to \in DOMAIN files /\ files[to].data = snap.files[l].data

====
